---- MODULE Spec2Model ----
(***************************************************************************)
(* Model of bcr_merge_cli.py: the pipeline orchestrator (main), the        *)
(* external process invoker (run_command and its three callers), the       *)
(* adapter normaliser and the FASTQ -> FASTA conversion.                   *)
(*                                                                         *)
(* Strings are sequences of one-character strings.  Paths are symbolic     *)
(* names.  The two external tools are black boxes: when executed they      *)
(* return any exit status and leave any subset of their output files.      *)
(***************************************************************************)
EXTENDS Integers, Sequences, FiniteSets, TLC

VARIABLES
    \* ---- command line (argparse.Namespace) and environment of main ----
    mode,               \* args.mode
    dry_run,            \* args.dry_run
    swap_r1r2,          \* args.swap_r1r2
    run_id_arg,         \* args.run_id (<<>> is None or "")
    assemble_prefix_abs,\* Path(args.assemble_prefix).is_absolute()
    conda_candidate,    \* $CONDA_PREFIX/Scripts/AssemblePairs.py exists
    which_found,        \* shutil.which("AssemblePairs.py") finds it
    \* ---- filesystem ----
    files,              \* regular files that exist
    dirs,               \* directories that exist
    \* ---- progress of main ----
    pc,                 \* position of main
    created,            \* directories this run created
    calls,              \* commands issued through run_command, in order
    executed,           \* processes spawned by subprocess.run, in order
    checks,             \* existence checks performed on output files
    converted,          \* fastq_to_fasta call: its source path, <<>> if none
    retcode,            \* value returned by main, NoReturn if none
    raised,             \* exception that left main, "none" if none
    \* ---- adapter normaliser ----
    ad_pc, ad_arg, ad_sanitized, ad_fmt5, ad_fmt3, ad_fmt5_again, ad_fmt3_again,
    \* ---- fastq_to_fasta ----
    fq_pc, fq_input, fin, fout, fq_records

mainVars == <<mode, dry_run, swap_r1r2, run_id_arg, assemble_prefix_abs,
              conda_candidate, which_found, files, dirs, pc, created, calls,
              executed, checks, converted, retcode, raised>>
adVars == <<ad_pc, ad_arg, ad_sanitized, ad_fmt5, ad_fmt3, ad_fmt5_again, ad_fmt3_again>>
fqVars == <<fq_pc, fq_input, fin, fout, fq_records>>
vars == <<mainVars, adVars, fqVars>>

(***************************************************************************)
(* Bounds                                                                  *)
(***************************************************************************)
MaxRunIdLen == 2
MaxAdapterLen == 4
MaxLines == 8

(***************************************************************************)
(* String helpers (Python str methods)                                     *)
(***************************************************************************)
Whitespace == {" ", "\n"}

RECURSIVE SeqsUpTo(_, _)
SeqsUpTo(S, n) ==
    IF n = 0 THEN {<<>>}
    ELSE LET shorter == SeqsUpTo(S, n - 1)
         IN  shorter \cup {Append(s, c) : s \in {t \in shorter : Len(t) = n - 1}, c \in S}

RECURSIVE lstrip(_)
lstrip(s) ==
    IF s # <<>> /\ Head(s) \in Whitespace THEN lstrip(Tail(s)) ELSE s

RECURSIVE rstrip(_)
rstrip(s) ==
    IF s # <<>> /\ s[Len(s)] \in Whitespace THEN rstrip(SubSeq(s, 1, Len(s) - 1)) ELSE s

strip(s) == rstrip(lstrip(s))

\* str.replace(ch, "")
replace_empty(s, ch) == SelectSeq(s, LAMBDA c : c # ch)

startswith(s, p) == Len(s) >= Len(p) /\ SubSeq(s, 1, Len(p)) = p
endswith(s, p) == Len(s) >= Len(p) /\ SubSeq(s, Len(s) - Len(p) + 1, Len(s)) = p

Count(s, ch) == Cardinality({i \in 1..Len(s) : s[i] = ch})

(***************************************************************************)
(* Naming resolver                                                         *)
(***************************************************************************)
\* line 155
InvalidRunIdChars == {"<", ">", ":", "\"", "/", "\\", "|", "?", "*"}

\* validate_run_id raises ValueError iff this is TRUE
validate_run_id_raises(run_id) == \E i \in 1..Len(run_id) : run_id[i] \in InvalidRunIdChars

\* datetime.now().strftime("%Y%m%d_%H%M%S"): digits and one underscore
Timestamp == <<"2", "0", "_", "1">>

\* line 364
resolve_run_id(arg) == IF arg # <<>> THEN strip(arg) ELSE Timestamp

(***************************************************************************)
(* External process invoker                                                *)
(***************************************************************************)
\* exit statuses of an external process: zero and non-zero
ExitStatuses == {0, 1}
\* retcode while main has not returned
NoReturn == -1

\* resolve_assemblepairs_path(): "conda", "which" or "FileNotFoundError"
resolve_assemblepairs_path(conda, which) ==
    IF conda THEN "conda"
    ELSE IF which THEN "which"
    ELSE "FileNotFoundError"


\* run_command without the dry-run early return (line 211)
run_command_no_dry(cmd, dry, next_pc) ==
    /\ calls' = Append(calls, cmd)
    /\ \E status \in {0, 1}, produced \in SUBSET cmd.outputs :
         /\ executed' = Append(executed, [kind |-> cmd.kind, status |-> status])
         /\ files' = (files \ cmd.outputs) \cup produced
         /\ IF status # 0
            THEN /\ raised' = "CalledProcessError"
                 /\ pc' = "raised"
            ELSE /\ pc' = next_pc
                 /\ UNCHANGED raised

\* run_command with check=False: the exit status is ignored (line 213)
run_command_no_check(cmd, dry, next_pc) ==
    /\ calls' = Append(calls, cmd)
    /\ IF dry
       THEN /\ pc' = next_pc
            /\ UNCHANGED <<executed, files, raised>>
       ELSE \E status \in {0, 1}, produced \in SUBSET cmd.outputs :
            /\ executed' = Append(executed, [kind |-> cmd.kind, status |-> status])
            /\ files' = (files \ cmd.outputs) \cup produced
            /\ pc' = next_pc
            /\ UNCHANGED raised

\* run_command: print the command (recorded in calls); in dry-run return;
\* otherwise spawn the process, which ends with any status and leaves any
\* subset of its outputs; check=True raises on a non-zero status.
run_command(cmd, dry, next_pc) ==
    /\ calls' = Append(calls, cmd)
    /\ IF dry
       THEN /\ pc' = next_pc
            /\ UNCHANGED <<executed, files, raised>>
       ELSE \E status \in ExitStatuses, produced \in SUBSET cmd.outputs :
            /\ executed' = Append(executed, [kind |-> cmd.kind, status |-> status])
            /\ files' = (files \ cmd.outputs) \cup produced
            /\ IF status # 0
               THEN /\ raised' = "CalledProcessError"
                    /\ pc' = "raised"
               ELSE /\ pc' = next_pc
                    /\ UNCHANGED raised

\* run_cutadapt_paired: -o out_r1 -p out_r2 r1 r2
cutadapt_paired_cmd(r1, r2, out_r1, out_r2) ==
    [kind |-> "paired_trim", inputs |-> <<r1, r2>>, outputs |-> {out_r1, out_r2},
     cwd |-> "inherit"]

\* run_cutadapt_single: -o out_fastq in_fastq
cutadapt_single_cmd(in_fastq, out_fastq) ==
    [kind |-> "single_trim", inputs |-> <<in_fastq>>, outputs |-> {out_fastq},
     cwd |-> "inherit"]

\* run_assemblepairs: -1 first -2 second, cwd = outdir; the tool writes
\* {outname}_assemble-pass.fastq
assemblepairs_cmd(r1, r2, swap, outdir) ==
    LET first == IF swap THEN r1 ELSE r2
        second == IF swap THEN r2 ELSE r1
    IN  [kind |-> "assemble", inputs |-> <<first, second>>,
         outputs |-> {"assemble_pass"}, cwd |-> outdir]

(***************************************************************************)
(* Pipeline orchestrator: main                                             *)
(***************************************************************************)
Modes == {"merge-only", "trim-merge", "merge-trim"}
RunIdChars == {"a", " ", ":", "/"}
AllDirs == {"base_outdir", "run_dir", "stem_parent"}

\* mkdir(parents=True, exist_ok=True)
mkdir(ds) ==
    /\ dirs' = dirs \cup ds
    /\ created' = created \cup (ds \ dirs)

\* assemble_outname.parent
stem_parent_dir == IF assemble_prefix_abs THEN "stem_parent" ELSE "run_dir"

configVars == <<mode, dry_run, swap_r1r2, run_id_arg, assemble_prefix_abs,
                conda_candidate, which_found>>

InitAdIdle ==
    /\ ad_pc = "idle" /\ ad_arg = <<>> /\ ad_sanitized = <<>>
    /\ ad_fmt5 = <<>> /\ ad_fmt3 = <<>> /\ ad_fmt5_again = <<>> /\ ad_fmt3_again = <<>>

InitFqIdle ==
    /\ fq_pc = "idle" /\ fq_input = <<>> /\ fin = <<>> /\ fout = <<>> /\ fq_records = 0

InitMainIdle ==
    /\ mode = "merge-only" /\ dry_run = TRUE /\ swap_r1r2 = FALSE
    /\ run_id_arg = <<>> /\ assemble_prefix_abs = FALSE
    /\ conda_candidate = FALSE /\ which_found = FALSE
    /\ files = {} /\ dirs = {} /\ pc = "idle" /\ created = {}
    /\ calls = <<>> /\ executed = <<>> /\ checks = {} /\ converted = <<>>
    /\ retcode = NoReturn /\ raised = "none"

InitMain ==
    /\ mode \in Modes
    /\ dry_run \in BOOLEAN
    /\ swap_r1r2 \in BOOLEAN
    /\ run_id_arg \in SeqsUpTo(RunIdChars, MaxRunIdLen)
    /\ assemble_prefix_abs \in BOOLEAN
    /\ conda_candidate \in BOOLEAN
    /\ which_found \in BOOLEAN
    /\ dirs \in SUBSET AllDirs
    /\ "run_dir" \in dirs => "base_outdir" \in dirs
    /\ "stem_parent" \in dirs => assemble_prefix_abs
    /\ files \in SUBSET {"r1", "r2", "assemble_pass", "merge_then_trim_fastq"}
    /\ "assemble_pass" \in files => stem_parent_dir \in dirs
    /\ "merge_then_trim_fastq" \in files => "run_dir" \in dirs
    /\ pc = "start"
    /\ created = {}
    /\ calls = <<>>
    /\ executed = <<>>
    /\ checks = {}
    /\ converted = <<>>
    /\ retcode = NoReturn
    /\ raised = "none"

Return(code) ==
    /\ retcode' = code
    /\ pc' = "returned"

\* CheckInputs that tests R1 only
CheckInputs_r1_only ==
    /\ pc = "start"
    /\ IF "r1" \notin files THEN Return(2)
       ELSE pc' = "mkbase" /\ UNCHANGED retcode
    /\ UNCHANGED <<configVars, files, dirs, created, calls, executed, checks,
                   converted, raised>>

\* lines 351-358
CheckInputs ==
    /\ pc = "start"
    /\ IF "r1" \notin files THEN Return(2)
       ELSE IF "r2" \notin files THEN Return(2)
       ELSE pc' = "mkbase" /\ UNCHANGED retcode
    /\ UNCHANGED <<configVars, files, dirs, created, calls, executed, checks,
                   converted, raised>>

\* lines 360-361
MkBaseOutdir ==
    /\ pc = "mkbase"
    /\ mkdir({"base_outdir"})
    /\ pc' = "validate"
    /\ UNCHANGED <<configVars, files, calls, executed, checks, converted,
                   retcode, raised>>

\* lines 363-365
ValidateRunId ==
    /\ pc = "validate"
    /\ IF validate_run_id_raises(resolve_run_id(run_id_arg))
       THEN /\ raised' = "ValueError(run-id)"
            /\ pc' = "raised"
       ELSE /\ pc' = "mkrun"
            /\ UNCHANGED raised
    /\ UNCHANGED <<configVars, files, dirs, created, calls, executed, checks,
                   converted, retcode>>

\* lines 366-394
MkRunDirs ==
    /\ pc = "mkrun"
    /\ mkdir({"run_dir", stem_parent_dir})
    /\ pc' = "pretrim"
    /\ UNCHANGED <<configVars, files, calls, executed, checks, converted,
                   retcode, raised>>

\* pre-trim in every trimming mode
needs_pre_trim_any_trim(m) == m # "merge-only"

\* line 396
needs_pre_trim(m) == m = "trim-merge"

\* line 432
needs_post_trim(m) == m = "merge-trim"

\* the raw reads handed to the assembly in every mode
assemble_inputs_raw(m) == <<"r1", "r2">>

\* lines 396-413: the paths handed to run_assemblepairs
assemble_inputs(m) ==
    IF needs_pre_trim(m) THEN <<"trimmed_r1", "trimmed_r2">> ELSE <<"r1", "r2">>

\* lines 446-448
fasta_source(m) ==
    IF needs_post_trim(m) THEN "merge_then_trim_fastq" ELSE "assemble_pass"

\* lines 396-413
PreTrim ==
    /\ pc = "pretrim"
    /\ IF needs_pre_trim(mode)
       THEN run_command(cutadapt_paired_cmd("r1", "r2", "trimmed_r1", "trimmed_r2"),
                        dry_run, "assemble")
       ELSE /\ pc' = "assemble"
            /\ UNCHANGED <<calls, executed, files, raised>>
    /\ UNCHANGED <<configVars, dirs, created, checks, converted, retcode>>

\* lines 415-426 (run_assemblepairs, lines 312-346)
Assemble ==
    /\ pc = "assemble"
    /\ IF resolve_assemblepairs_path(conda_candidate, which_found) = "FileNotFoundError"
       THEN /\ raised' = "FileNotFoundError"
            /\ pc' = "raised"
            /\ UNCHANGED <<calls, executed, files>>
       ELSE run_command(assemblepairs_cmd(assemble_inputs(mode)[1], assemble_inputs(mode)[2],
                                          swap_r1r2, "run_dir"),
                        dry_run, "checkpass")
    /\ UNCHANGED <<configVars, dirs, created, checks, converted, retcode>>

\* CheckPass returning the post-trim code
CheckPass_code4 ==
    /\ pc = "checkpass"
    /\ IF ~dry_run
       THEN /\ checks' = checks \cup {"assemble_pass"}
            /\ IF "assemble_pass" \notin files
               THEN Return(4)
               ELSE pc' = "posttrim" /\ UNCHANGED retcode
       ELSE /\ pc' = "posttrim"
            /\ UNCHANGED <<checks, retcode>>
    /\ UNCHANGED <<configVars, files, dirs, created, calls, executed, converted, raised>>

\* lines 428-431
CheckPass ==
    /\ pc = "checkpass"
    /\ IF ~dry_run
       THEN /\ checks' = checks \cup {"assemble_pass"}
            /\ IF "assemble_pass" \notin files
               THEN Return(3)
               ELSE pc' = "posttrim" /\ UNCHANGED retcode
       ELSE /\ pc' = "posttrim"
            /\ UNCHANGED <<checks, retcode>>
    /\ UNCHANGED <<configVars, files, dirs, created, calls, executed, converted, raised>>

\* lines 432-442
PostTrim ==
    /\ pc = "posttrim"
    /\ IF needs_post_trim(mode)
       THEN run_command(cutadapt_single_cmd("assemble_pass", "merge_then_trim_fastq"),
                        dry_run, "checkpost")
       ELSE /\ pc' = "convert"
            /\ UNCHANGED <<calls, executed, files, raised>>
    /\ UNCHANGED <<configVars, dirs, created, checks, converted, retcode>>

\* lines 443-446
CheckPost ==
    /\ pc = "checkpost"
    /\ IF ~dry_run
       THEN /\ checks' = checks \cup {"merge_then_trim_fastq"}
            /\ IF "merge_then_trim_fastq" \notin files
               THEN Return(4)
               ELSE pc' = "convert" /\ UNCHANGED retcode
       ELSE /\ pc' = "convert"
            /\ UNCHANGED <<checks, retcode>>
    /\ UNCHANGED <<configVars, files, dirs, created, calls, executed, converted, raised>>

\* Exceptions fastq_to_fasta can raise on the content of its source
ConvertOutcomes == {"ok", "ValueError(truncated)", "IndexError"}

\* lines 450-461
Convert ==
    /\ pc = "convert"
    /\ IF dry_run
       THEN /\ Return(0)
            /\ UNCHANGED <<converted, files, raised>>
       ELSE /\ converted' = <<fasta_source(mode)>>
            /\ \E outcome \in ConvertOutcomes :
                 IF outcome = "ok"
                 THEN /\ Return(0)
                      /\ files' = files \cup {"fasta_out"}
                      /\ UNCHANGED raised
                 ELSE /\ raised' = outcome
                      /\ pc' = "raised"
                      /\ files' = files \cup {"fasta_out"}
                      /\ UNCHANGED retcode
    /\ UNCHANGED <<configVars, dirs, created, calls, executed, checks>>

(***************************************************************************)
(* Adapter normaliser                                                      *)
(***************************************************************************)
\* sanitize_adapter that forgets the "$" marker
sanitize_adapter_caret_only(seq) == replace_empty(strip(seq), "^")

\* lines 160-162
sanitize_adapter(seq) == replace_empty(replace_empty(strip(seq), "^"), "$")

\* lines 165-169
ensure_prefix(seq, prefix) ==
    LET s == strip(seq) IN IF startswith(s, prefix) THEN s ELSE prefix \o s

\* lines 172-176
ensure_suffix(seq, suffix) ==
    LET s == strip(seq) IN IF endswith(s, suffix) THEN s ELSE s \o suffix

AdapterChars == {"A", "^", "$", " "}

InitAdapter ==
    /\ ad_pc = "start"
    /\ ad_arg \in SeqsUpTo(AdapterChars, MaxAdapterLen)
    /\ ad_sanitized = <<>>
    /\ ad_fmt5 = <<>> /\ ad_fmt3 = <<>>
    /\ ad_fmt5_again = <<>> /\ ad_fmt3_again = <<>>

\* main, lines 385-390
Sanitize ==
    /\ ad_pc = "start"
    /\ ad_sanitized' = sanitize_adapter(ad_arg)
    /\ ad_pc' = "sanitized"
    /\ UNCHANGED <<ad_arg, ad_fmt5, ad_fmt3, ad_fmt5_again, ad_fmt3_again>>

\* run_cutadapt_paired / run_cutadapt_single, lines 254-260 and 292-298
FormatForUse ==
    /\ ad_pc = "sanitized"
    /\ ad_fmt5' = ensure_prefix(ad_sanitized, <<"^">>)
    /\ ad_fmt3' = ensure_suffix(ad_sanitized, <<"$">>)
    /\ ad_pc' = "formatted"
    /\ UNCHANGED <<ad_arg, ad_sanitized, ad_fmt5_again, ad_fmt3_again>>

\* the same formatting applied to an adapter that already carries its marker
FormatAgain ==
    /\ ad_pc = "formatted"
    /\ ad_fmt5_again' = ensure_prefix(ad_fmt5, <<"^">>)
    /\ ad_fmt3_again' = ensure_suffix(ad_fmt3, <<"$">>)
    /\ ad_pc' = "reformatted"
    /\ UNCHANGED <<ad_arg, ad_sanitized, ad_fmt5, ad_fmt3>>

(***************************************************************************)
(* fastq_to_fasta                                                          *)
(***************************************************************************)
\* file.readline(): the text up to and including the next "\n", the rest of
\* the stream when there is none, "" at end of file
readline_len(s) ==
    IF \E i \in 1..Len(s) : s[i] = "\n"
    THEN CHOOSE i \in 1..Len(s) : s[i] = "\n" /\ \A j \in 1..(i - 1) : s[j] # "\n"
    ELSE Len(s)

readline(s) == SubSeq(s, 1, readline_len(s))
after_readline(s) == SubSeq(s, readline_len(s) + 1, Len(s))

\* length of the first whitespace-free run of s
RECURSIVE token_len(_)
token_len(s) ==
    IF s = <<>> \/ Head(s) \in Whitespace THEN 0 ELSE 1 + token_len(Tail(s))

\* str.split(): no token at all makes split()[0] raise IndexError
split_is_empty(s) == lstrip(s) = <<>>
split_first(s) == SubSeq(lstrip(s), 1, token_len(lstrip(s)))

\* lines 229-231
header_name(header) ==
    LET h == strip(header) IN IF startswith(h, <<"@">>) THEN Tail(h) ELSE h

FqLines == { <<>>, <<"a">>, <<"@", "a", " ", "b">> }

RECURSIVE JoinLines(_)
JoinLines(ls) == IF ls = <<>> THEN <<>> ELSE Head(ls) \o <<"\n">> \o JoinLines(Tail(ls))

\* a text file: lines ended by "\n", the last one possibly not
Stream(ls, final_newline) ==
    LET t == JoinLines(ls)
    IN  IF final_newline \/ t = <<>> THEN t ELSE SubSeq(t, 1, Len(t) - 1)

InitFastq ==
    /\ fq_pc = "loop"
    /\ \E ls \in SeqsUpTo(FqLines, MaxLines), nl \in BOOLEAN : fq_input = Stream(ls, nl)
    /\ fin = fq_input
    /\ fout = <<>>
    /\ fq_records = 0

\* lines 220-234: one iteration of the while loop
FqIteration ==
    /\ fq_pc = "loop"
    /\ LET header == readline(fin)
           rest1 == after_readline(fin)
           seq == readline(rest1)
           rest2 == after_readline(rest1)
           plus == readline(rest2)
           rest3 == after_readline(rest2)
           qual == readline(rest3)
           rest4 == after_readline(rest3)
       IN  IF header = <<>>
           THEN /\ fq_pc' = "done"
                /\ UNCHANGED <<fin, fout, fq_records>>
           ELSE /\ fin' = rest4
                /\ IF qual = <<>>
                   THEN /\ fq_pc' = "ValueError(truncated)"
                        /\ UNCHANGED <<fout, fq_records>>
                   ELSE IF split_is_empty(header_name(header))
                   THEN /\ fq_pc' = "IndexError"
                        /\ UNCHANGED <<fout, fq_records>>
                   ELSE /\ fout' = fout \o <<">">> \o split_first(header_name(header))
                                        \o <<"\n">> \o strip(seq) \o <<"\n">>
                        /\ fq_records' = fq_records + 1
                        /\ UNCHANGED fq_pc
    /\ UNCHANGED fq_input

(***************************************************************************)
(* Specifications                                                          *)
(***************************************************************************)
Init == InitMain /\ InitAdIdle /\ InitFqIdle

Next ==
    \/ CheckInputs /\ UNCHANGED <<adVars, fqVars>>
    \/ MkBaseOutdir /\ UNCHANGED <<adVars, fqVars>>
    \/ ValidateRunId /\ UNCHANGED <<adVars, fqVars>>
    \/ MkRunDirs /\ UNCHANGED <<adVars, fqVars>>
    \/ PreTrim /\ UNCHANGED <<adVars, fqVars>>
    \/ Assemble /\ UNCHANGED <<adVars, fqVars>>
    \/ CheckPass /\ UNCHANGED <<adVars, fqVars>>
    \/ PostTrim /\ UNCHANGED <<adVars, fqVars>>
    \/ CheckPost /\ UNCHANGED <<adVars, fqVars>>
    \/ Convert /\ UNCHANGED <<adVars, fqVars>>

Spec == Init /\ [][Next]_vars

InitAd == InitMainIdle /\ InitAdapter /\ InitFqIdle

NextAd ==
    \/ Sanitize /\ UNCHANGED <<mainVars, fqVars>>
    \/ FormatForUse /\ UNCHANGED <<mainVars, fqVars>>
    \/ FormatAgain /\ UNCHANGED <<mainVars, fqVars>>

SpecAdapter == InitAd /\ [][NextAd]_vars

InitFq == InitMainIdle /\ InitAdIdle /\ InitFastq

NextFq == FqIteration /\ UNCHANGED <<mainVars, adVars>>

SpecFastq == InitFq /\ [][NextFq]_vars

(***************************************************************************)
(* Properties                                                              *)
(***************************************************************************)
Kinds(cs) == [i \in 1..Len(cs) |-> cs[i].kind]
SeqRange(q) == {q[i] : i \in 1..Len(q)}
AllExitZero == \A i \in 1..Len(executed) : executed[i].status = 0
RunIdInvalid == \E i \in 1..Len(run_id_arg) : run_id_arg[i] \in {":", "/"}

\* C1: a run of main that returns 0 issued exactly the calls of its mode, in
\* order: merge-only the assembly; trim-merge the paired trim then the
\* assembly; merge-trim the assembly then the single-stream trim; an
\* executed run spawned exactly those processes.
C1_CallSequenceByMode ==
    retcode = 0 =>
        /\ Kinds(calls) = CASE mode = "merge-only" -> <<"assemble">>
                            [] mode = "trim-merge" -> <<"paired_trim", "assemble">>
                            [] mode = "merge-trim" -> <<"assemble", "single_trim">>
        /\ ~dry_run => Kinds(executed) = Kinds(calls)

C1_Witness ==
    /\ retcode = 0 /\ ~dry_run /\ mode = "merge-trim" /\ Len(executed) = 2

\* C2: when validate_run_id raises, no external call has been issued and no
\* directory (base output directory, run directory, stem parent) has been
\* created by this run.
C2_InvalidRunIdBeforeAnySideEffect ==
    raised = "ValueError(run-id)" =>
        /\ calls = <<>>
        /\ executed = <<>>
        /\ created = {}

\* C3: in dry-run with both reads present, a valid run identifier and a
\* locatable assembly tool, no process is executed, no existence check is
\* performed, the conversion is not executed and main ends only by
\* returning 0, whichever output files exist.
C3_DryRunHasNoEffect ==
    (/\ dry_run
     /\ {"r1", "r2"} \subseteq files
     /\ ~RunIdInvalid
     /\ (conda_candidate \/ which_found)) =>
        /\ executed = <<>>
        /\ checks = {}
        /\ converted = <<>>
        /\ raised = "none"
        /\ pc # "raised"
        /\ retcode \in {NoReturn, 0}
        /\ pc = "returned" => retcode = 0

C3_Witness ==
    /\ dry_run /\ retcode = 0 /\ mode = "merge-trim" /\ Len(calls) = 2
    /\ "assemble_pass" \notin files /\ "merge_then_trim_fastq" \notin files

\* C4: when the assembly tool cannot be located, no external process has
\* been run by the time the error is raised.
C4_MissingToolBeforeAnyCall ==
    raised = "FileNotFoundError" => executed = <<>>

\* C5: in an executed run whose external calls all exit zero, main returns 3
\* exactly when the assembly pass output is missing at its check, and then
\* no post-trim call and no conversion happen; it returns 4 exactly when the
\* pass output exists and the post-trim output is missing at its check, and
\* then no conversion happens.
C5_MissingOutputCodes ==
    (~dry_run /\ AllExitZero) =>
        /\ "assemble_pass" \in checks => (retcode = 3 <=> "assemble_pass" \notin files)
        /\ retcode = 3 =>
              /\ "assemble_pass" \in checks
              /\ "single_trim" \notin SeqRange(Kinds(calls))
              /\ "merge_then_trim_fastq" \notin checks
              /\ converted = <<>>
        /\ "merge_then_trim_fastq" \in checks =>
              /\ mode = "merge-trim"
              /\ retcode = 4 <=> "merge_then_trim_fastq" \notin files
        /\ retcode = 4 =>
              /\ "merge_then_trim_fastq" \in checks
              /\ "assemble_pass" \in files
              /\ converted = <<>>

C5_Witness ==
    /\ retcode = 3 /\ mode = "merge-trim" /\ ~dry_run
    /\ "merge_then_trim_fastq" \in files

\* C6: once the inputs have been checked, a missing R1 or R2 means main has
\* returned 2 with no call issued, no directory created and no run-id error;
\* 2 is returned for no other reason.
C6_MissingInputExit2 ==
    /\ (pc # "start" /\ ("r1" \notin files \/ "r2" \notin files)) =>
          /\ pc = "returned"
          /\ retcode = 2
          /\ calls = <<>>
          /\ executed = <<>>
          /\ created = {}
          /\ raised = "none"
    /\ retcode = 2 => ("r1" \notin files \/ "r2" \notin files)

C6_Witness ==
    /\ retcode = 2 /\ "r1" \in files /\ "r2" \notin files /\ dry_run
    /\ RunIdInvalid /\ "base_outdir" \notin dirs /\ mode = "trim-merge"

\* C7: a process that exits non-zero is the last thing the run does: no
\* later call, no retry, no existence check after it, no conversion, and
\* main ends by CalledProcessError, not by returning.
C7_NonZeroExitAborts ==
    \A i \in 1..Len(executed) :
        executed[i].status # 0 =>
            /\ i = Len(executed)
            /\ Len(calls) = Len(executed)
            /\ \A j \in 1..(i - 1) : executed[j].kind # executed[i].kind
            /\ checks = IF executed[i].kind = "single_trim" THEN {"assemble_pass"} ELSE {}
            /\ converted = <<>>
            /\ pc = "raised"
            /\ raised = "CalledProcessError"
            /\ retcode = NoReturn

C7_Witness ==
    /\ Len(executed) = 2 /\ executed[1].status = 0
    /\ executed[2].status # 0 /\ executed[2].kind = "single_trim"

\* C8: the sanitized adapter has no marker; the 5' form starts with the only
\* "^" and has no "$"; the 3' form ends with the only "$" and has no "^";
\* formatting a formatted adapter again returns it unchanged.
C8_AdapterMarkers ==
    /\ ad_pc \in {"sanitized", "formatted", "reformatted"} =>
          /\ Count(ad_sanitized, "^") = 0
          /\ Count(ad_sanitized, "$") = 0
    /\ ad_pc \in {"formatted", "reformatted"} =>
          /\ Head(ad_fmt5) = "^"
          /\ Count(ad_fmt5, "^") = 1
          /\ Count(ad_fmt5, "$") = 0
          /\ ad_fmt3[Len(ad_fmt3)] = "$"
          /\ Count(ad_fmt3, "$") = 1
          /\ Count(ad_fmt3, "^") = 0
    /\ ad_pc = "reformatted" =>
          /\ ad_fmt5_again = ad_fmt5
          /\ ad_fmt3_again = ad_fmt3

C8_Witness ==
    /\ ad_pc = "reformatted"
    /\ Count(ad_arg, "^") >= 1 /\ Count(ad_arg, "$") >= 1 /\ Count(ad_arg, " ") >= 1
    /\ Len(ad_sanitized) >= 1

\* the input stream as the list of lines readline returns
RECURSIVE InputLines(_)
InputLines(s) == IF s = <<>> THEN <<>> ELSE <<readline(s)>> \o InputLines(after_readline(s))

\* the header as C9 words it: "@" removed, cut at the first whitespace
C9_Header(line) ==
    LET h == strip(line)
        name == IF startswith(h, <<"@">>) THEN Tail(h) ELSE h
    IN  SubSeq(name, 1, token_len(name))

RECURSIVE C9_Output(_)
C9_Output(ls) ==
    IF Len(ls) < 4 THEN <<>>
    ELSE <<">">> \o C9_Header(ls[1]) \o <<"\n">> \o strip(ls[2]) \o <<"\n">>
         \o C9_Output(SubSeq(ls, 5, Len(ls)))

\* C9: fastq_to_fasta ends either with one two-line record per 4-line input
\* record, in order, or with the truncated-record error; the error happens
\* exactly when the stream ends inside a record, and nothing else is raised.
C9_ConvertOrTruncated ==
    fq_pc \notin {"idle", "loop"} =>
        LET ls == InputLines(fq_input) IN
        /\ fq_pc \in {"done", "ValueError(truncated)"}
        /\ fq_pc = "ValueError(truncated)" <=> Len(ls) % 4 # 0
        /\ fq_pc = "done" =>
              /\ fq_records = Len(ls) \div 4
              /\ fout = C9_Output(ls)

\* C10: the assembly reads the trimmed pair exactly in trim-merge and the
\* raw pair otherwise; the single-stream trim exists only in merge-trim and
\* reads the assembly pass output; the converted file is the post-trim
\* output exactly in merge-trim and the assembly pass output otherwise.
C10_FileFlow ==
    /\ \A i \in 1..Len(calls) :
          /\ calls[i].kind = "assemble" =>
                SeqRange(calls[i].inputs) =
                    IF mode = "trim-merge" THEN {"trimmed_r1", "trimmed_r2"}
                    ELSE {"r1", "r2"}
          /\ calls[i].kind = "single_trim" =>
                /\ mode = "merge-trim"
                /\ calls[i].inputs = <<"assemble_pass">>
    /\ converted # <<>> =>
          converted = IF mode = "merge-trim" THEN <<"merge_then_trim_fastq">>
                      ELSE <<"assemble_pass">>

C10_Witness ==
    /\ mode = "trim-merge" /\ converted = <<"assemble_pass">> /\ retcode = 0
    /\ Len(calls) = 2 /\ swap_r1r2

====
